---- MODULE Spec2Model ----
(***************************************************************************)
(* Model of property_brief.py: the orchestrator generate_property_brief,   *)
(* its two completion calls, the per-image plan, the zipcode lookups and   *)
(* build_brief.                                                            *)
(*                                                                         *)
(* A Python str is a sequence of code points, so that lower(), strip(),    *)
(* join(), sorted(), substring tests and f-string interpolation are        *)
(* computed character by character.  Each literal is followed by a comment *)
(* giving its text.  Python's None is the one-element sequence <<-1>>,     *)
(* which is no string (no code point is negative).  A dict is a function   *)
(* on its keys; a key that is absent is absent from the DOMAIN.            *)
(***************************************************************************)
EXTENDS Integers, Sequences, FiniteSets, TLC

None == <<-1>>

\* Truth value of an Optional[str]: None and "" are falsy.
Truthy(x) == x /= None /\ x /= <<>>

\* Python's `x or d` on an Optional[str].
Or(x, d) == IF Truthy(x) THEN x ELSE d

\* dict.get(key, default)
Get(d, key, default) == IF key \in DOMAIN d THEN d[key] ELSE default

\* str.lower() on ASCII: A-Z (65..90) map to a-z.
lower(s) == [i \in 1..Len(s) |-> IF s[i] >= 65 /\ s[i] <= 90 THEN s[i] + 32 ELSE s[i]]

\* `sub in s` for two strings: sub occurs as a contiguous substring.
contains(s, sub) ==
    \E k \in 0..(Len(s) - Len(sub)) : \A j \in 1..Len(sub) : s[k + j] = sub[j]

\* sep.join(parts)
RECURSIVE join(_, _)
join(sep, parts) ==
    IF Len(parts) = 0 THEN <<>>
    ELSE IF Len(parts) = 1 THEN parts[1]
    ELSE parts[1] \o sep \o join(sep, Tail(parts))

\* ASCII whitespace removed by str.strip(): \t \n \v \f \r and space.
IsSpace(c) == c \in {9, 10, 11, 12, 13, 32}

\* str.strip()
RECURSIVE lstrip(_)
lstrip(s) == IF Len(s) > 0 /\ IsSpace(s[1]) THEN lstrip(Tail(s)) ELSE s

RECURSIVE rstrip(_)
rstrip(s) ==
    IF Len(s) > 0 /\ IsSpace(s[Len(s)]) THEN rstrip(SubSeq(s, 1, Len(s) - 1)) ELSE s

strip(s) == rstrip(lstrip(s))

\* Python's `a < b` on str: lexicographic by code point, a proper prefix first.
StrLess(a, b) ==
    \E i \in 1..(Len(b)) :
        /\ i <= Len(a) + 1
        /\ \A j \in 1..(i - 1) : a[j] = b[j]
        /\ (i = Len(a) + 1 \/ a[i] < b[i])

\* sorted(S) for a set of strings.
RECURSIVE sorted(_)
sorted(S) ==
    IF S = {} THEN <<>>
    ELSE LET m == CHOOSE x \in S : \A y \in S : x = y \/ StrLess(x, y)
         IN  <<m>> \o sorted(S \ {m})

\* set(seq)
set(seq) == {seq[i] : i \in 1..Len(seq)}

\* The decimal text an f-string gives a non-negative int.
RECURSIVE str(_)
str(n) == IF n < 10 THEN <<48 + n>> ELSE str(n \div 10) \o <<48 + (n % 10)>>

(***************************************************************************)
(* The mock zipcode tables.                                                *)
(***************************************************************************)
mock_fetch_community(zipcode) ==
    LET data == (<<57, 53, 49, 49, 50>> (* "95112" *) :> [
                    summary |-> <<85, 114, 98, 97, 110, 32, 110, 101, 105, 103, 104, 98, 111, 114, 104, 111, 111, 100, 32, 119, 105, 116, 104, 32, 109, 105, 120, 101, 100, 32, 114, 101, 115, 105, 100, 101, 110, 116, 105, 97, 108, 32, 97, 110, 100, 32, 99, 111, 109, 109, 101, 114, 99, 105, 97, 108, 32, 98, 108, 111, 99, 107, 115, 46>> (* "Urban neighborhood with mixed residential and commercial blocks." *),
                    highlights |-> << <<87, 97, 108, 107, 97, 98, 108, 101, 32, 115, 116, 114, 101, 101, 116, 115, 32, 97, 110, 100, 32, 108, 111, 99, 97, 108, 32, 115, 104, 111, 112, 115>> (* "Walkable streets and local shops" *),
                                      <<65, 99, 99, 101, 115, 115, 32, 116, 111, 32, 116, 114, 97, 110, 115, 105, 116, 32, 99, 111, 114, 114, 105, 100, 111, 114, 115>> (* "Access to transit corridors" *),
                                      <<65, 99, 116, 105, 118, 101, 32, 110, 101, 105, 103, 104, 98, 111, 114, 104, 111, 111, 100, 32, 97, 115, 115, 111, 99, 105, 97, 116, 105, 111, 110, 115>> (* "Active neighborhood associations" *) >>])
        entry == Get(data, zipcode, [
                    summary |-> <<71, 101, 110, 101, 114, 97, 108, 32, 99, 111, 109, 109, 117, 110, 105, 116, 121, 32, 112, 114, 111, 102, 105, 108, 101, 32, 102, 111, 114, 32, 116, 104, 101, 32, 97, 114, 101, 97, 46>> (* "General community profile for the area." *),
                    highlights |-> << <<76, 111, 99, 97, 108, 32, 97, 109, 101, 110, 105, 116, 105, 101, 115, 32, 110, 101, 97, 114, 98, 121>> (* "Local amenities nearby" *),
                                      <<77, 105, 120, 101, 100, 32, 104, 111, 117, 115, 105, 110, 103, 32, 116, 121, 112, 101, 115>> (* "Mixed housing types" *),
                                      <<67, 111, 109, 109, 117, 110, 105, 116, 121, 32, 101, 118, 101, 110, 116, 115>> (* "Community events" *) >>])
    IN  [summary |-> entry.summary,
         highlights |-> entry.highlights,
         source |-> <<109, 111, 99, 107, 95, 99, 111, 109, 109, 117, 110, 105, 116, 121, 95, 100, 97, 116, 97, 115, 101, 116, 95, 118, 49>> (* "mock_community_dataset_v1" *),
         updated_at |-> <<50, 48, 50, 54, 45, 48, 49, 45, 48, 49>> (* "2026-01-01" *)]

mock_fetch_climate(zipcode) ==
    LET data == (<<57, 53, 49, 49, 50>> (* "95112" *) :> [
                    summary |-> <<77, 105, 108, 100, 32, 99, 108, 105, 109, 97, 116, 101, 32, 119, 105, 116, 104, 32, 119, 97, 114, 109, 32, 115, 117, 109, 109, 101, 114, 115, 32, 97, 110, 100, 32, 99, 111, 111, 108, 32, 119, 105, 110, 116, 101, 114, 115, 46>> (* "Mild climate with warm summers and cool winters." *),
                    highlights |-> << <<87, 97, 114, 109, 32, 115, 117, 109, 109, 101, 114, 32, 97, 102, 116, 101, 114, 110, 111, 111, 110, 115>> (* "Warm summer afternoons" *),
                                      <<67, 111, 111, 108, 32, 101, 118, 101, 110, 105, 110, 103, 115, 32, 105, 110, 32, 119, 105, 110, 116, 101, 114>> (* "Cool evenings in winter" *),
                                      <<76, 111, 119, 32, 97, 110, 110, 117, 97, 108, 32, 115, 110, 111, 119, 102, 97, 108, 108>> (* "Low annual snowfall" *) >>])
        entry == Get(data, zipcode, [
                    summary |-> <<84, 121, 112, 105, 99, 97, 108, 32, 114, 101, 103, 105, 111, 110, 97, 108, 32, 99, 108, 105, 109, 97, 116, 101, 32, 112, 97, 116, 116, 101, 114, 110, 115, 46>> (* "Typical regional climate patterns." *),
                    highlights |-> << <<83, 101, 97, 115, 111, 110, 97, 108, 32, 116, 101, 109, 112, 101, 114, 97, 116, 117, 114, 101, 32, 118, 97, 114, 105, 97, 116, 105, 111, 110>> (* "Seasonal temperature variation" *),
                                      <<79, 99, 99, 97, 115, 105, 111, 110, 97, 108, 32, 114, 97, 105, 110>> (* "Occasional rain" *),
                                      <<77, 111, 100, 101, 114, 97, 116, 101, 32, 104, 117, 109, 105, 100, 105, 116, 121>> (* "Moderate humidity" *) >>])
    IN  [summary |-> entry.summary,
         highlights |-> entry.highlights,
         source |-> <<109, 111, 99, 107, 95, 99, 108, 105, 109, 97, 116, 101, 95, 100, 97, 116, 97, 115, 101, 116, 95, 118, 49>> (* "mock_climate_dataset_v1" *),
         updated_at |-> <<50, 48, 50, 54, 45, 48, 49, 45, 48, 49>> (* "2026-01-01" *)]

mock_fetch_schools(zipcode) ==
    LET data == (<<57, 53, 49, 49, 50>> (* "95112" *) :> [
                    summary |-> <<83, 99, 104, 111, 111, 108, 115, 32, 115, 104, 111, 119, 32, 109, 105, 120, 101, 100, 32, 112, 101, 114, 102, 111, 114, 109, 97, 110, 99, 101, 32, 119, 105, 116, 104, 32, 97, 32, 114, 97, 110, 103, 101, 32, 111, 102, 32, 112, 114, 111, 103, 114, 97, 109, 115, 46>> (* "Schools show mixed performance with a range of programs." *),
                    highlights |-> << <<86, 97, 114, 105, 101, 100, 32, 97, 99, 97, 100, 101, 109, 105, 99, 32, 111, 117, 116, 99, 111, 109, 101, 115, 32, 97, 99, 114, 111, 115, 115, 32, 115, 99, 104, 111, 111, 108, 115>> (* "Varied academic outcomes across schools" *),
                                      <<83, 84, 69, 77, 32, 97, 110, 100, 32, 97, 114, 116, 115, 32, 112, 114, 111, 103, 114, 97, 109, 115, 32, 97, 118, 97, 105, 108, 97, 98, 108, 101>> (* "STEM and arts programs available" *),
                                      <<83, 111, 109, 101, 32, 115, 99, 104, 111, 111, 108, 115, 32, 119, 105, 116, 104, 105, 110, 32, 119, 97, 108, 107, 105, 110, 103, 32, 100, 105, 115, 116, 97, 110, 99, 101>> (* "Some schools within walking distance" *) >>])
        entry == Get(data, zipcode, [
                    summary |-> <<83, 99, 104, 111, 111, 108, 32, 111, 112, 116, 105, 111, 110, 115, 32, 118, 97, 114, 121, 32, 98, 121, 32, 122, 111, 110, 101, 46>> (* "School options vary by zone." *),
                    highlights |-> << <<80, 117, 98, 108, 105, 99, 32, 97, 110, 100, 32, 112, 114, 105, 118, 97, 116, 101, 32, 111, 112, 116, 105, 111, 110, 115>> (* "Public and private options" *),
                                      <<69, 110, 114, 111, 108, 108, 109, 101, 110, 116, 32, 118, 97, 114, 105, 101, 115>> (* "Enrollment varies" *),
                                      <<80, 114, 111, 103, 114, 97, 109, 32, 97, 118, 97, 105, 108, 97, 98, 105, 108, 105, 116, 121, 32, 100, 105, 102, 102, 101, 114, 115>> (* "Program availability differs" *) >>])
    IN  [summary |-> entry.summary,
         highlights |-> entry.highlights,
         source |-> <<109, 111, 99, 107, 95, 115, 99, 104, 111, 111, 108, 95, 100, 97, 116, 97, 115, 101, 116, 95, 118, 49>> (* "mock_school_dataset_v1" *),
         updated_at |-> <<50, 48, 50, 54, 45, 48, 49, 45, 48, 49>> (* "2026-01-01" *)]

\* Mutant of mock_fetch_crime: the fallback entry reports a Low risk level.
mock_fetch_crime_default_low(zipcode) ==
    LET data == (<<57, 53, 49, 49, 50>> (* "95112" *) :> [
                    summary |-> <<67, 114, 105, 109, 101, 32, 108, 101, 118, 101, 108, 115, 32, 97, 114, 101, 32, 109, 111, 100, 101, 114, 97, 116, 101, 32, 114, 101, 108, 97, 116, 105, 118, 101, 32, 116, 111, 32, 110, 101, 97, 114, 98, 121, 32, 97, 114, 101, 97, 115, 46>> (* "Crime levels are moderate relative to nearby areas." *),
                    risk_level |-> <<77, 101, 100, 105, 117, 109>> (* "Medium" *),
                    highlights |-> << <<80, 114, 111, 112, 101, 114, 116, 121, 32, 105, 110, 99, 105, 100, 101, 110, 116, 115, 32, 97, 114, 101, 32, 116, 104, 101, 32, 109, 111, 115, 116, 32, 99, 111, 109, 109, 111, 110>> (* "Property incidents are the most common" *),
                                      <<80, 111, 108, 105, 99, 101, 32, 112, 114, 101, 115, 101, 110, 99, 101, 32, 97, 114, 111, 117, 110, 100, 32, 116, 114, 97, 110, 115, 105, 116, 32, 104, 117, 98, 115>> (* "Police presence around transit hubs" *),
                                      <<78, 101, 105, 103, 104, 98, 111, 114, 104, 111, 111, 100, 32, 119, 97, 116, 99, 104, 32, 97, 99, 116, 105, 118, 105, 116, 121, 32, 114, 101, 112, 111, 114, 116, 101, 100>> (* "Neighborhood watch activity reported" *) >>])
        entry == Get(data, zipcode, [
                    summary |-> <<67, 114, 105, 109, 101, 32, 112, 114, 111, 102, 105, 108, 101, 32, 118, 97, 114, 105, 101, 115, 32, 119, 105, 116, 104, 105, 110, 32, 116, 104, 101, 32, 97, 114, 101, 97, 46>> (* "Crime profile varies within the area." *),
                    risk_level |-> <<76, 111, 119>> (* "Low" *),
                    highlights |-> << <<77, 105, 120, 101, 100, 32, 105, 110, 99, 105, 100, 101, 110, 116, 32, 116, 121, 112, 101, 115, 32, 114, 101, 112, 111, 114, 116, 101, 100>> (* "Mixed incident types reported" *),
                                      <<83, 111, 109, 101, 32, 115, 116, 114, 101, 101, 116, 115, 32, 97, 114, 101, 32, 113, 117, 105, 101, 116, 101, 114, 32, 116, 104, 97, 110, 32, 111, 116, 104, 101, 114, 115>> (* "Some streets are quieter than others" *),
                                      <<76, 111, 99, 97, 108, 32, 115, 97, 102, 101, 116, 121, 32, 105, 110, 105, 116, 105, 97, 116, 105, 118, 101, 115, 32, 101, 120, 105, 115, 116>> (* "Local safety initiatives exist" *) >>])
    IN  [summary |-> entry.summary,
         risk_level |-> entry.risk_level,
         highlights |-> entry.highlights,
         source |-> <<109, 111, 99, 107, 95, 99, 114, 105, 109, 101, 95, 100, 97, 116, 97, 115, 101, 116, 95, 118, 49>> (* "mock_crime_dataset_v1" *),
         updated_at |-> <<50, 48, 50, 54, 45, 48, 49, 45, 48, 49>> (* "2026-01-01" *)]

mock_fetch_crime(zipcode) ==
    LET data == (<<57, 53, 49, 49, 50>> (* "95112" *) :> [
                    summary |-> <<67, 114, 105, 109, 101, 32, 108, 101, 118, 101, 108, 115, 32, 97, 114, 101, 32, 109, 111, 100, 101, 114, 97, 116, 101, 32, 114, 101, 108, 97, 116, 105, 118, 101, 32, 116, 111, 32, 110, 101, 97, 114, 98, 121, 32, 97, 114, 101, 97, 115, 46>> (* "Crime levels are moderate relative to nearby areas." *),
                    risk_level |-> <<77, 101, 100, 105, 117, 109>> (* "Medium" *),
                    highlights |-> << <<80, 114, 111, 112, 101, 114, 116, 121, 32, 105, 110, 99, 105, 100, 101, 110, 116, 115, 32, 97, 114, 101, 32, 116, 104, 101, 32, 109, 111, 115, 116, 32, 99, 111, 109, 109, 111, 110>> (* "Property incidents are the most common" *),
                                      <<80, 111, 108, 105, 99, 101, 32, 112, 114, 101, 115, 101, 110, 99, 101, 32, 97, 114, 111, 117, 110, 100, 32, 116, 114, 97, 110, 115, 105, 116, 32, 104, 117, 98, 115>> (* "Police presence around transit hubs" *),
                                      <<78, 101, 105, 103, 104, 98, 111, 114, 104, 111, 111, 100, 32, 119, 97, 116, 99, 104, 32, 97, 99, 116, 105, 118, 105, 116, 121, 32, 114, 101, 112, 111, 114, 116, 101, 100>> (* "Neighborhood watch activity reported" *) >>])
        entry == Get(data, zipcode, [
                    summary |-> <<67, 114, 105, 109, 101, 32, 112, 114, 111, 102, 105, 108, 101, 32, 118, 97, 114, 105, 101, 115, 32, 119, 105, 116, 104, 105, 110, 32, 116, 104, 101, 32, 97, 114, 101, 97, 46>> (* "Crime profile varies within the area." *),
                    risk_level |-> <<77, 101, 100, 105, 117, 109>> (* "Medium" *),
                    highlights |-> << <<77, 105, 120, 101, 100, 32, 105, 110, 99, 105, 100, 101, 110, 116, 32, 116, 121, 112, 101, 115, 32, 114, 101, 112, 111, 114, 116, 101, 100>> (* "Mixed incident types reported" *),
                                      <<83, 111, 109, 101, 32, 115, 116, 114, 101, 101, 116, 115, 32, 97, 114, 101, 32, 113, 117, 105, 101, 116, 101, 114, 32, 116, 104, 97, 110, 32, 111, 116, 104, 101, 114, 115>> (* "Some streets are quieter than others" *),
                                      <<76, 111, 99, 97, 108, 32, 115, 97, 102, 101, 116, 121, 32, 105, 110, 105, 116, 105, 97, 116, 105, 118, 101, 115, 32, 101, 120, 105, 115, 116>> (* "Local safety initiatives exist" *) >>])
    IN  [summary |-> entry.summary,
         risk_level |-> entry.risk_level,
         highlights |-> entry.highlights,
         source |-> <<109, 111, 99, 107, 95, 99, 114, 105, 109, 101, 95, 100, 97, 116, 97, 115, 101, 116, 95, 118, 49>> (* "mock_crime_dataset_v1" *),
         updated_at |-> <<50, 48, 50, 54, 45, 48, 49, 45, 48, 49>> (* "2026-01-01" *)]

fetch_zipcode_insights(zipcode) ==
    [community |-> mock_fetch_community(zipcode),
     climate |-> mock_fetch_climate(zipcode),
     schools |-> mock_fetch_schools(zipcode),
     crime |-> mock_fetch_crime(zipcode)]

(***************************************************************************)
(* The style and room catalogs.                                            *)
(***************************************************************************)
style_phrases(style) ==
    LET phrases ==
            (<<77, 111, 100, 101, 114, 110, 32, 78, 101, 117, 116, 114, 97, 108>> (* "Modern Neutral" *) :> <<98, 114, 105, 103, 104, 116, 44, 32, 99, 108, 101, 97, 110, 44, 32, 109, 105, 110, 105, 109, 97, 108, 44, 32, 110, 101, 117, 116, 114, 97, 108, 32, 99, 111, 108, 111, 114, 115, 44, 32, 109, 111, 100, 101, 114, 110, 32, 115, 116, 97, 103, 105, 110, 103>> (* "bright, clean, minimal, neutral colors, modern staging" *))
         @@ (<<76, 117, 120, 117, 114, 121>> (* "Luxury" *) :> <<117, 112, 115, 99, 97, 108, 101, 32, 109, 97, 116, 101, 114, 105, 97, 108, 115, 32, 102, 101, 101, 108, 44, 32, 98, 97, 108, 97, 110, 99, 101, 100, 32, 99, 111, 110, 116, 114, 97, 115, 116, 44, 32, 112, 114, 101, 109, 105, 117, 109, 32, 115, 116, 97, 103, 105, 110, 103, 44, 32, 112, 111, 108, 105, 115, 104, 101, 100, 32, 108, 111, 111, 107>> (* "upscale materials feel, balanced contrast, premium staging, polished look" *))
         @@ (<<66, 114, 105, 103, 104, 116, 32, 68, 97, 121, 116, 105, 109, 101>> (* "Bright Daytime" *) :> <<100, 97, 121, 108, 105, 103, 104, 116, 32, 102, 101, 101, 108, 44, 32, 98, 114, 105, 103, 104, 116, 101, 114, 32, 101, 120, 112, 111, 115, 117, 114, 101, 44, 32, 99, 114, 105, 115, 112, 32, 119, 104, 105, 116, 101, 115, 44, 32, 110, 97, 116, 117, 114, 97, 108, 32, 115, 104, 97, 100, 111, 119, 115>> (* "daylight feel, brighter exposure, crisp whites, natural shadows" *))
         @@ (<<87, 97, 114, 109, 32, 67, 111, 122, 121>> (* "Warm Cozy" *) :> <<119, 97, 114, 109, 101, 114, 32, 116, 101, 109, 112, 101, 114, 97, 116, 117, 114, 101, 44, 32, 105, 110, 118, 105, 116, 105, 110, 103, 32, 116, 111, 110, 101, 44, 32, 115, 111, 102, 116, 32, 108, 105, 103, 104, 116, 105, 110, 103, 44, 32, 99, 111, 122, 121, 32, 115, 116, 97, 103, 105, 110, 103>> (* "warmer temperature, inviting tone, soft lighting, cozy staging" *))
    IN  Get(phrases, style, <<98, 97, 108, 97, 110, 99, 101, 100, 44, 32, 114, 101, 97, 108, 105, 115, 116, 105, 99, 44, 32, 116, 97, 115, 116, 101, 102, 117, 108, 32, 115, 116, 97, 103, 105, 110, 103>> (* "balanced, realistic, tasteful staging" *))

_style_suggested_edits(style) ==
    LET edits ==
            (<<77, 111, 100, 101, 114, 110, 32, 78, 101, 117, 116, 114, 97, 108>> (* "Modern Neutral" *) :> << <<85, 115, 101, 32, 110, 101, 117, 116, 114, 97, 108, 32, 99, 111, 108, 111, 114, 32, 98, 97, 108, 97, 110, 99, 101, 32, 97, 110, 100, 32, 99, 108, 101, 97, 110, 32, 119, 104, 105, 116, 101, 115>> (* "Use neutral color balance and clean whites" *),
                                      <<75, 101, 101, 112, 32, 100, 101, 99, 111, 114, 32, 109, 105, 110, 105, 109, 97, 108, 32, 97, 110, 100, 32, 109, 111, 100, 101, 114, 110>> (* "Keep decor minimal and modern" *) >>)
         @@ (<<76, 117, 120, 117, 114, 121>> (* "Luxury" *) :> << <<69, 110, 104, 97, 110, 99, 101, 32, 109, 97, 116, 101, 114, 105, 97, 108, 32, 114, 105, 99, 104, 110, 101, 115, 115, 32, 97, 110, 100, 32, 98, 97, 108, 97, 110, 99, 101, 100, 32, 99, 111, 110, 116, 114, 97, 115, 116>> (* "Enhance material richness and balanced contrast" *),
                              <<80, 111, 108, 105, 115, 104, 32, 102, 105, 110, 105, 115, 104, 101, 115, 32, 102, 111, 114, 32, 97, 32, 112, 114, 101, 109, 105, 117, 109, 32, 108, 111, 111, 107>> (* "Polish finishes for a premium look" *) >>)
         @@ (<<66, 114, 105, 103, 104, 116, 32, 68, 97, 121, 116, 105, 109, 101>> (* "Bright Daytime" *) :> << <<73, 110, 99, 114, 101, 97, 115, 101, 32, 101, 120, 112, 111, 115, 117, 114, 101, 32, 102, 111, 114, 32, 97, 32, 100, 97, 121, 108, 105, 103, 104, 116, 32, 102, 101, 101, 108>> (* "Increase exposure for a daylight feel" *),
                                      <<80, 114, 101, 115, 101, 114, 118, 101, 32, 110, 97, 116, 117, 114, 97, 108, 32, 115, 104, 97, 100, 111, 119, 115, 32, 97, 110, 100, 32, 99, 114, 105, 115, 112, 32, 119, 104, 105, 116, 101, 115>> (* "Preserve natural shadows and crisp whites" *) >>)
         @@ (<<87, 97, 114, 109, 32, 67, 111, 122, 121>> (* "Warm Cozy" *) :> << <<87, 97, 114, 109, 32, 116, 104, 101, 32, 99, 111, 108, 111, 114, 32, 116, 101, 109, 112, 101, 114, 97, 116, 117, 114, 101, 32, 115, 108, 105, 103, 104, 116, 108, 121>> (* "Warm the color temperature slightly" *),
                                 <<85, 115, 101, 32, 115, 111, 102, 116, 32, 108, 105, 103, 104, 116, 105, 110, 103, 32, 102, 111, 114, 32, 97, 110, 32, 105, 110, 118, 105, 116, 105, 110, 103, 32, 116, 111, 110, 101>> (* "Use soft lighting for an inviting tone" *) >>)
    IN  Get(edits, style, << <<77, 97, 105, 110, 116, 97, 105, 110, 32, 97, 32, 98, 97, 108, 97, 110, 99, 101, 100, 44, 32, 114, 101, 97, 108, 105, 115, 116, 105, 99, 32, 112, 114, 101, 115, 101, 110, 116, 97, 116, 105, 111, 110>> (* "Maintain a balanced, realistic presentation" *) >>)

_room_suggested_edits(room_type_hint) ==
    IF ~Truthy(room_type_hint)
    THEN << <<82, 101, 102, 105, 110, 101, 32, 115, 116, 97, 103, 105, 110, 103, 32, 97, 112, 112, 114, 111, 112, 114, 105, 97, 116, 101, 32, 102, 111, 114, 32, 116, 104, 101, 32, 114, 111, 111, 109>> (* "Refine staging appropriate for the room" *) >>
    ELSE LET room_map ==
                 (<<108, 105, 118, 105, 110, 103, 95, 114, 111, 111, 109>> (* "living_room" *) :> <<65, 108, 105, 103, 110, 32, 102, 117, 114, 110, 105, 116, 117, 114, 101, 44, 32, 99, 108, 101, 97, 114, 32, 99, 108, 117, 116, 116, 101, 114, 101, 100, 32, 115, 117, 114, 102, 97, 99, 101, 115>> (* "Align furniture, clear cluttered surfaces" *))
              @@ (<<107, 105, 116, 99, 104, 101, 110>> (* "kitchen" *) :> <<67, 108, 101, 97, 114, 32, 99, 111, 117, 110, 116, 101, 114, 115, 44, 32, 101, 110, 104, 97, 110, 99, 101, 32, 97, 112, 112, 108, 105, 97, 110, 99, 101, 32, 102, 105, 110, 105, 115, 104>> (* "Clear counters, enhance appliance finish" *))
              @@ (<<98, 101, 100, 114, 111, 111, 109>> (* "bedroom" *) :> <<83, 116, 114, 97, 105, 103, 104, 116, 101, 110, 32, 98, 101, 100, 100, 105, 110, 103, 44, 32, 115, 111, 102, 116, 101, 110, 32, 108, 105, 103, 104, 116, 105, 110, 103>> (* "Straighten bedding, soften lighting" *))
              @@ (<<98, 97, 116, 104, 114, 111, 111, 109>> (* "bathroom" *) :> <<80, 111, 108, 105, 115, 104, 32, 102, 105, 120, 116, 117, 114, 101, 115, 44, 32, 99, 108, 101, 97, 110, 32, 109, 105, 114, 114, 111, 114, 32, 114, 101, 102, 108, 101, 99, 116, 105, 111, 110, 115>> (* "Polish fixtures, clean mirror reflections" *))
              @@ (<<100, 105, 110, 105, 110, 103, 95, 114, 111, 111, 109>> (* "dining_room" *) :> <<78, 101, 97, 116, 101, 110, 32, 116, 97, 98, 108, 101, 32, 115, 101, 116, 116, 105, 110, 103, 44, 32, 98, 97, 108, 97, 110, 99, 101, 32, 108, 105, 103, 104, 116, 105, 110, 103>> (* "Neaten table setting, balance lighting" *))
         IN  << Get(room_map, room_type_hint, <<82, 101, 102, 105, 110, 101, 32, 115, 116, 97, 103, 105, 110, 103, 32, 97, 112, 112, 114, 111, 112, 114, 105, 97, 116, 101, 32, 102, 111, 114, 32, 116, 104, 101, 32, 114, 111, 111, 109>> (* "Refine staging appropriate for the room" *)) >>

(***************************************************************************)
(* The pure parts of generate_property_brief and build_brief.              *)
(***************************************************************************)
\* seq[:n]
Take(seq, n) == SubSeq(seq, 1, IF Len(seq) < n THEN Len(seq) ELSE n)

\* Mutant of combined_room_hint: the hints joined as they come, neither
\* deduplicated nor sorted.
combined_room_hint_unsorted(images) ==
    LET hints == [i \in 1..Len(images) |-> Get(images[i], "room_type_hint", None)]
        room_types == SelectSeq(hints, Truthy)
    IN  IF Len(room_types) > 0 THEN join(<<44, 32>> (* ", " *), room_types) ELSE None

\* Lines 327-328: the combined room hint handed to build_enhancement_prompt.
combined_room_hint(images) ==
    LET hints == [i \in 1..Len(images) |-> Get(images[i], "room_type_hint", None)]
        room_types == SelectSeq(hints, Truthy)
    IN  IF Len(room_types) > 0 THEN join(<<44, 32>> (* ", " *), sorted(set(room_types))) ELSE None

\* Lines 334-352: the plan item of one image.
baseline_edits ==
    << <<67, 111, 114, 114, 101, 99, 116, 32, 108, 105, 103, 104, 116, 105, 110, 103, 32, 97, 110, 100, 32, 101, 120, 112, 111, 115, 117, 114, 101>> (* "Correct lighting and exposure" *),
       <<79, 112, 116, 105, 109, 105, 122, 101, 32, 99, 111, 108, 111, 114, 32, 98, 97, 108, 97, 110, 99, 101>> (* "Optimize color balance" *),
       <<68, 101, 99, 108, 117, 116, 116, 101, 114, 32, 118, 105, 115, 105, 98, 108, 101, 32, 115, 117, 114, 102, 97, 99, 101, 115>> (* "Declutter visible surfaces" *),
       <<82, 101, 102, 105, 110, 101, 32, 115, 116, 97, 103, 105, 110, 103, 32, 102, 111, 114, 32, 116, 104, 101, 32, 114, 111, 111, 109>> (* "Refine staging for the room" *) >>

mock_enhanced_url(image) ==
    <<104, 116, 116, 112, 115, 58, 47, 47, 101, 120, 97, 109, 112, 108, 101, 46, 99, 111, 109, 47, 101, 110, 104, 97, 110, 99, 101, 100, 47>> (* "https://example.com/enhanced/" *) \o Get(image, "image_id", <<>>) \o <<46, 106, 112, 103>> (* ".jpg" *)

\* Mutant of plan_item: the room edit is appended before the style edits.
plan_item_room_first(image, style) ==
    LET room_type_hint == Get(image, "room_type_hint", None)
        suggested_edits ==
            (baseline_edits \o _room_suggested_edits(room_type_hint))
                \o _style_suggested_edits(style)
    IN  [image_id |-> Get(image, "image_id", <<>>),
         original_url |-> Get(image, "url", <<>>),
         room_type_hint |-> room_type_hint,
         suggested_edits |-> suggested_edits,
         mock_enhanced_url |-> mock_enhanced_url(image)]

plan_item(image, style) ==
    LET room_type_hint == Get(image, "room_type_hint", None)
        suggested_edits ==
            (baseline_edits \o _style_suggested_edits(style))
                \o _room_suggested_edits(room_type_hint)
    IN  [image_id |-> Get(image, "image_id", <<>>),
         original_url |-> Get(image, "url", <<>>),
         room_type_hint |-> room_type_hint,
         suggested_edits |-> suggested_edits,
         mock_enhanced_url |-> mock_enhanced_url(image)]

\* Mutant of brief_highlights: the crime summary gets a line too, after the
\* community line.
brief_highlights_with_crime(listing_description, zipcode_insights, image_enhance_plan) ==
    (IF Truthy(listing_description)
       THEN << <<76, 105, 115, 116, 105, 110, 103, 32, 100, 101, 115, 99, 114, 105, 112, 116, 105, 111, 110, 58, 32>> (* "Listing description: " *) \o listing_description >>
       ELSE <<>>)
    \o << (<<80, 108, 97, 110, 110, 101, 100, 32, 105, 109, 97, 103, 101, 32, 101, 110, 104, 97, 110, 99, 101, 109, 101, 110, 116, 115, 32, 102, 111, 114, 32>> (* "Planned image enhancements for " *) \o str(Len(image_enhance_plan))) \o <<32, 112, 104, 111, 116, 111, 115>> (* " photos" *) >>
    \o << <<67, 111, 109, 109, 117, 110, 105, 116, 121, 58, 32>> (* "Community: " *) \o zipcode_insights.community.summary >>
    \o << <<67, 114, 105, 109, 101, 58, 32>> (* "Crime: " *) \o zipcode_insights.crime.summary >>
    \o << <<67, 108, 105, 109, 97, 116, 101, 58, 32>> (* "Climate: " *) \o zipcode_insights.climate.summary >>
    \o << <<83, 99, 104, 111, 111, 108, 115, 58, 32>> (* "Schools: " *) \o zipcode_insights.schools.summary >>

\* Lines 225-231, before the [:5] cut of line 314.
brief_highlights(listing_description, zipcode_insights, image_enhance_plan) ==
    (IF Truthy(listing_description)
       THEN << <<76, 105, 115, 116, 105, 110, 103, 32, 100, 101, 115, 99, 114, 105, 112, 116, 105, 111, 110, 58, 32>> (* "Listing description: " *) \o listing_description >>
       ELSE <<>>)
    \o << (<<80, 108, 97, 110, 110, 101, 100, 32, 105, 109, 97, 103, 101, 32, 101, 110, 104, 97, 110, 99, 101, 109, 101, 110, 116, 115, 32, 102, 111, 114, 32>> (* "Planned image enhancements for " *) \o str(Len(image_enhance_plan))) \o <<32, 112, 104, 111, 116, 111, 115>> (* " photos" *) >>
    \o << <<67, 111, 109, 109, 117, 110, 105, 116, 121, 58, 32>> (* "Community: " *) \o zipcode_insights.community.summary >>
    \o << <<67, 108, 105, 109, 97, 116, 101, 58, 32>> (* "Climate: " *) \o zipcode_insights.climate.summary >>
    \o << <<83, 99, 104, 111, 111, 108, 115, 58, 32>> (* "Schools: " *) \o zipcode_insights.schools.summary >>

\* any(keyword in text for keyword in keywords)
any_keyword(text, keywords) == \E k \in 1..Len(keywords) : contains(text, keywords[k])

\* Mutant of brief_risk_flags: the keyword tests skip the lower-casing.
brief_risk_flags_case_sensitive(listing_description, zipcode_insights, image_enhance_plan) ==
    LET crime_risk == zipcode_insights.crime.risk_level
        school_text == join(<<32>> (* " " *), zipcode_insights.schools.highlights)
        climate_text == join(<<32>> (* " " *), zipcode_insights.climate.highlights)
    IN  (IF crime_risk \in {<<77, 101, 100, 105, 117, 109>> (* "Medium" *), <<72, 105, 103, 104>> (* "High" *)}
           THEN << <<67, 114, 105, 109, 101, 32, 114, 105, 115, 107, 32, 108, 101, 118, 101, 108, 32, 114, 101, 112, 111, 114, 116, 101, 100, 32, 97, 115, 32>> (* "Crime risk level reported as " *) \o crime_risk >>
           ELSE <<>>)
        \o (IF any_keyword(school_text, << <<118, 97, 114, 105, 101, 100>> (* "varied" *), <<109, 105, 120, 101, 100>> (* "mixed" *), <<117, 110, 101, 118, 101, 110>> (* "uneven" *) >>)
              THEN << <<83, 99, 104, 111, 111, 108, 32, 112, 101, 114, 102, 111, 114, 109, 97, 110, 99, 101, 32, 97, 112, 112, 101, 97, 114, 115, 32, 118, 97, 114, 105, 97, 98, 108, 101, 32, 97, 99, 114, 111, 115, 115, 32, 122, 111, 110, 101, 115>> (* "School performance appears variable across zones" *) >>
              ELSE <<>>)
        \o (IF any_keyword(climate_text,
                           << <<104, 101, 97, 116>> (* "heat" *), <<104, 111, 116>> (* "hot" *), <<115, 116, 111, 114, 109>> (* "storm" *), <<102, 108, 111, 111, 100>> (* "flood" *), <<115, 110, 111, 119>> (* "snow" *) >>)
              THEN << <<67, 108, 105, 109, 97, 116, 101, 32, 110, 111, 116, 101, 115, 32, 105, 110, 99, 108, 117, 100, 101, 32, 115, 101, 97, 115, 111, 110, 97, 108, 32, 101, 120, 116, 114, 101, 109, 101, 115, 32, 111, 114, 32, 101, 118, 101, 110, 116, 115>> (* "Climate notes include seasonal extremes or events" *) >>
              ELSE <<>>)
        \o (IF ~Truthy(listing_description)
              THEN << <<76, 105, 115, 116, 105, 110, 103, 32, 100, 101, 115, 99, 114, 105, 112, 116, 105, 111, 110, 32, 105, 115, 32, 109, 105, 115, 115, 105, 110, 103, 32, 111, 114, 32, 109, 105, 110, 105, 109, 97, 108>> (* "Listing description is missing or minimal" *) >>
              ELSE <<>>)
        \o (IF Len(image_enhance_plan) = 0
              THEN << <<78, 111, 32, 105, 109, 97, 103, 101, 32, 101, 110, 104, 97, 110, 99, 101, 109, 101, 110, 116, 32, 112, 108, 97, 110, 32, 103, 101, 110, 101, 114, 97, 116, 101, 100>> (* "No image enhancement plan generated" *) >>
              ELSE <<>>)

\* Lines 233-249.
brief_risk_flags(listing_description, zipcode_insights, image_enhance_plan) ==
    LET crime_risk == zipcode_insights.crime.risk_level
        school_text == lower(join(<<32>> (* " " *), zipcode_insights.schools.highlights))
        climate_text == lower(join(<<32>> (* " " *), zipcode_insights.climate.highlights))
    IN  (IF crime_risk \in {<<77, 101, 100, 105, 117, 109>> (* "Medium" *), <<72, 105, 103, 104>> (* "High" *)}
           THEN << <<67, 114, 105, 109, 101, 32, 114, 105, 115, 107, 32, 108, 101, 118, 101, 108, 32, 114, 101, 112, 111, 114, 116, 101, 100, 32, 97, 115, 32>> (* "Crime risk level reported as " *) \o crime_risk >>
           ELSE <<>>)
        \o (IF any_keyword(school_text, << <<118, 97, 114, 105, 101, 100>> (* "varied" *), <<109, 105, 120, 101, 100>> (* "mixed" *), <<117, 110, 101, 118, 101, 110>> (* "uneven" *) >>)
              THEN << <<83, 99, 104, 111, 111, 108, 32, 112, 101, 114, 102, 111, 114, 109, 97, 110, 99, 101, 32, 97, 112, 112, 101, 97, 114, 115, 32, 118, 97, 114, 105, 97, 98, 108, 101, 32, 97, 99, 114, 111, 115, 115, 32, 122, 111, 110, 101, 115>> (* "School performance appears variable across zones" *) >>
              ELSE <<>>)
        \o (IF any_keyword(climate_text,
                           << <<104, 101, 97, 116>> (* "heat" *), <<104, 111, 116>> (* "hot" *), <<115, 116, 111, 114, 109>> (* "storm" *), <<102, 108, 111, 111, 100>> (* "flood" *), <<115, 110, 111, 119>> (* "snow" *) >>)
              THEN << <<67, 108, 105, 109, 97, 116, 101, 32, 110, 111, 116, 101, 115, 32, 105, 110, 99, 108, 117, 100, 101, 32, 115, 101, 97, 115, 111, 110, 97, 108, 32, 101, 120, 116, 114, 101, 109, 101, 115, 32, 111, 114, 32, 101, 118, 101, 110, 116, 115>> (* "Climate notes include seasonal extremes or events" *) >>
              ELSE <<>>)
        \o (IF ~Truthy(listing_description)
              THEN << <<76, 105, 115, 116, 105, 110, 103, 32, 100, 101, 115, 99, 114, 105, 112, 116, 105, 111, 110, 32, 105, 115, 32, 109, 105, 115, 115, 105, 110, 103, 32, 111, 114, 32, 109, 105, 110, 105, 109, 97, 108>> (* "Listing description is missing or minimal" *) >>
              ELSE <<>>)
        \o (IF Len(image_enhance_plan) = 0
              THEN << <<78, 111, 32, 105, 109, 97, 103, 101, 32, 101, 110, 104, 97, 110, 99, 101, 109, 101, 110, 116, 32, 112, 108, 97, 110, 32, 103, 101, 110, 101, 114, 97, 116, 101, 100>> (* "No image enhancement plan generated" *) >>
              ELSE <<>>)

\* Lines 251-254.
confidence_notes ==
    << <<90, 105, 112, 99, 111, 100, 101, 32, 105, 110, 115, 105, 103, 104, 116, 115, 32, 97, 114, 101, 32, 109, 111, 99, 107, 32, 100, 97, 116, 97, 32, 97, 110, 100, 32, 115, 104, 111, 117, 108, 100, 32, 98, 101, 32, 118, 101, 114, 105, 102, 105, 101, 100, 32, 119, 105, 116, 104, 32, 108, 111, 99, 97, 108, 32, 115, 111, 117, 114, 99, 101, 115>> (* "Zipcode insights are mock data and should be verified with local sources" *),
       <<73, 109, 97, 103, 101, 32, 101, 110, 104, 97, 110, 99, 101, 109, 101, 110, 116, 32, 115, 117, 103, 103, 101, 115, 116, 105, 111, 110, 115, 32, 97, 114, 101, 32, 115, 116, 121, 108, 105, 115, 116, 105, 99, 32, 103, 117, 105, 100, 101, 108, 105, 110, 101, 115, 44, 32, 110, 111, 116, 32, 101, 120, 101, 99, 117, 116, 101, 100, 32, 101, 100, 105, 116, 115>> (* "Image enhancement suggestions are stylistic guidelines, not executed edits" *) >>

\* Lines 256-259.
image_plan_lines(image_enhance_plan) ==
    [i \in 1..Len(image_enhance_plan) |->
        ((<<45, 32>> (* "- " *) \o image_enhance_plan[i].image_id) \o <<58, 32>> (* ": " *))
            \o Or(image_enhance_plan[i].room_type_hint, <<117, 110, 115, 112, 101, 99, 105, 102, 105, 101, 100, 32, 114, 111, 111, 109>> (* "unspecified room" *))]

\* Lines 260-269.
image_markdown_blocks(image_enhance_plan) ==
    [i \in 1..Len(image_enhance_plan) |->
        LET item == image_enhance_plan[i]
        IN  join(<<10>> (* "\n" *),
                 << ((<<42, 42>> (* "**" *) \o item.image_id) \o <<42, 42, 32, 40>> (* "** (" *))
                        \o Or(item.room_type_hint, <<117, 110, 115, 112, 101, 99, 105, 102, 105, 101, 100, 32, 114, 111, 111, 109>> (* "unspecified room" *)) \o <<41>> (* ")" *),
                    (<<79, 114, 105, 103, 105, 110, 97, 108, 58, 32, 33, 91, 93, 40>> (* "Original: ![](" *) \o item.original_url) \o <<41>> (* ")" *),
                    (<<69, 110, 104, 97, 110, 99, 101, 100, 32, 40, 109, 111, 99, 107, 41, 58, 32, 33, 91, 93, 40>> (* "Enhanced (mock): ![](" *) \o item.mock_enhanced_url) \o <<41>> (* ")" *) >>)]

(***************************************************************************)
(* Bounds and the inputs the specifications draw from.                     *)
(***************************************************************************)
MaxImages == 2

\* All sequences over S of length at most n.
RECURSIVE SeqsUpTo(_, _)
SeqsUpTo(S, n) ==
    IF n = 0 THEN {<<>>}
    ELSE LET shorter == SeqsUpTo(S, n - 1)
         IN  shorter \cup {Append(s, x) : s \in {t \in shorter : Len(t) = n - 1}, x \in S}

ApiKeys == {None, <<>>, <<115, 107, 45, 97>> (* "sk-a" *), <<115, 107, 45, 98>> (* "sk-b" *)}
ModelNames == {None, <<103, 112, 116, 45, 52, 111>> (* "gpt-4o" *)}

\* What the completion service may answer: an exception of the client
\* library, or a completion whose content is a text or None.
Responses ==
    {[raises |-> TRUE, type |-> t] : t \in {"APIConnectionError", "RateLimitError"}}
    \cup {[raises |-> FALSE, content |-> c] :
            c \in {None, <<32, 66, 114, 105, 103, 104, 116, 101, 110, 32, 116, 104, 101, 32, 114, 111, 111, 109, 46, 32, 10>> (* " Brighten the room. \n" *), <<35, 32, 82, 101, 112, 111, 114, 116>> (* "# Report" *)}}

Img1 == [image_id |-> <<105, 109, 103, 95, 49>> (* "img_1" *), url |-> <<104, 116, 116, 112, 115, 58, 47, 47, 120, 47, 97, 46, 106, 112, 103>> (* "https://x/a.jpg" *), room_type_hint |-> <<107, 105, 116, 99, 104, 101, 110>> (* "kitchen" *)]
Img7 == [image_id |-> <<105, 109, 103, 95, 55>> (* "img_7" *), url |-> <<104, 116, 116, 112, 115, 58, 47, 47, 120, 47, 98, 46, 106, 112, 103>> (* "https://x/b.jpg" *), room_type_hint |-> <<98, 101, 100, 114, 111, 111, 109>> (* "bedroom" *)]
ImgNoHint == [image_id |-> <<105, 109, 103, 95, 51>> (* "img_3" *), url |-> <<104, 116, 116, 112, 115, 58, 47, 47, 120, 47, 99, 46, 106, 112, 103>> (* "https://x/c.jpg" *)]
ImgNoId == [url |-> <<104, 116, 116, 112, 115, 58, 47, 47, 120, 47, 100, 46, 106, 112, 103>> (* "https://x/d.jpg" *), room_type_hint |-> <<>>]
ImgBed == [image_id |-> <<105, 109, 103, 95, 54>> (* "img_6" *), room_type_hint |-> <<98, 101, 100>> (* "bed" *)]

Luxury == <<76, 117, 120, 117, 114, 121>> (* "Luxury" *)
Styles == {<<87, 97, 114, 109, 32, 67, 111, 122, 121>> (* "Warm Cozy" *), <<66, 111, 104, 111>> (* "Boho" *)}
Descriptions == {<<>>, <<66, 114, 105, 103, 104, 116, 32, 111, 112, 101, 110, 32, 108, 97, 121, 111, 117, 116, 46>> (* "Bright open layout." *)}
Zipcodes == {<<57, 53, 49, 49, 50>> (* "95112" *), <<48, 48, 48, 48, 48>> (* "00000" *), <<>>, <<57, 53, 49, 49, 120>> (* "9511x" *)}

(***************************************************************************)
(* State.                                                                  *)
(***************************************************************************)
VARIABLES
    OpenAI,             \* module global: TRUE when `from openai import OpenAI` worked
    DEFAULT_LLM_MODEL,  \* module global, line 13
    environ,            \* os.environ; None for a variable that is not set
    pc,                 \* where the running call is
    args,               \* <<>> or <<the arguments of the running call>>
    room_hint,          \* generate_property_brief's locals
    enhancement_prompt,
    image_enhance_plan,
    zipcode_insights,   \* <<>> or <<the mapping>>
    calls,              \* the completion requests sent so far by the running call
    replies,            \* what the service answered to each of them
    result,             \* <<>> or <<the value returned>>
    error               \* <<>> or <<the exception raised>>

vars == <<OpenAI, DEFAULT_LLM_MODEL, environ, pc, args, room_hint, enhancement_prompt,
          image_enhance_plan, zipcode_insights, calls, replies, result, error>>

\* os.getenv(name, default)
getenv(name, default) == IF environ[name] = None THEN default ELSE environ[name]

\* Mutant of _get_openai_client: the check of the key is missing.
_get_openai_client_no_key_check ==
    IF ~OpenAI
    THEN [raised |-> TRUE,
          error |-> [type |-> "RuntimeError",
                     message |-> "openai package is not installed. Run: pip install openai"]]
    ELSE [raised |-> FALSE, client |-> [api_key |-> getenv("OPENAI_API_KEY", None)]]

\* Lines 16-24.
_get_openai_client ==
    IF ~OpenAI
    THEN [raised |-> TRUE,
          error |-> [type |-> "RuntimeError",
                     message |-> "openai package is not installed. Run: pip install openai"]]
    ELSE LET api_key == getenv("OPENAI_API_KEY", None)
         IN  IF ~Truthy(api_key)
             THEN [raised |-> TRUE,
                   error |-> [type |-> "RuntimeError",
                              message |-> "OPENAI_API_KEY is not set in the environment."]]
             ELSE [raised |-> FALSE, client |-> [api_key |-> api_key]]

\* Mutant of request_model: the variable is read when the request is built.
request_model_from_env == getenv("OPENAI_MODEL", <<103, 112, 116, 45, 52, 111, 45, 109, 105, 110, 105>> (* "gpt-4o-mini" *))

\* The model= argument of lines 56 and 304.
request_model == DEFAULT_LLM_MODEL

\* The keyword arguments of client.chat.completions.create, lines 55-62 and
\* 303-310, with the key the client was built with.
completion_request(client, messages) ==
    [api_key |-> client.api_key,
     model |-> request_model,
     messages |-> messages,
     temperature |-> "0.2"]

\* Mutant of create_and_strip: a failed request is sent a second time.
create_and_strip_retry(client, messages, response) ==
    LET request == completion_request(client, messages)
    IN  IF response.raises
        THEN [raised |-> TRUE, requests |-> <<request, request>>,
              error |-> [type |-> response.type, message |-> "completion call failed"]]
        ELSE IF response.content = None
        THEN [raised |-> TRUE, requests |-> <<request>>,
              error |-> [type |-> "AttributeError",
                         message |-> "'NoneType' object has no attribute 'strip'"]]
        ELSE [raised |-> FALSE, requests |-> <<request>>,
              value |-> strip(response.content)]

\* Mutant of create_and_strip: a failed request yields an empty text.
create_and_strip_fallback(client, messages, response) ==
    LET request == completion_request(client, messages)
    IN  IF response.raises \/ response.content = None
        THEN [raised |-> FALSE, requests |-> <<request>>, value |-> <<>>]
        ELSE [raised |-> FALSE, requests |-> <<request>>,
              value |-> strip(response.content)]

\* client.chat.completions.create(...) followed by
\* response.choices[0].message.content.strip(): one request goes out, and the
\* answer is an exception of the library, an AttributeError (content is None)
\* or the stripped text.
create_and_strip(client, messages, response) ==
    LET request == completion_request(client, messages)
    IN  IF response.raises
        THEN [raised |-> TRUE, requests |-> <<request>>,
              error |-> [type |-> response.type, message |-> "completion call failed"]]
        ELSE IF response.content = None
        THEN [raised |-> TRUE, requests |-> <<request>>,
              error |-> [type |-> "AttributeError",
                         message |-> "'NoneType' object has no attribute 'strip'"]]
        ELSE [raised |-> FALSE, requests |-> <<request>>,
              value |-> strip(response.content)]

\* Lines 27-63.  The fixed wording of the two prompts is left out of the
\* message content, which holds the values interpolated into it.
build_enhancement_prompt(style, listing_description, room_type_hint, response) ==
    LET got == _get_openai_client
    IN  IF got.raised
        THEN [raised |-> TRUE, requests |-> <<>>, error |-> got.error]
        ELSE LET messages ==
                     << [role |-> "system", content |-> <<"enhancement prompt writer">>],
                        [role |-> "user",
                         content |-> << style_phrases(style),
                                        Or(listing_description,
                                           <<78, 111, 32, 108, 105, 115, 116, 105, 110, 103, 32, 100, 101, 115, 99, 114, 105, 112, 116, 105, 111, 110, 32, 112, 114, 111, 118, 105, 100, 101, 100, 46>> (* "No listing description provided." *)),
                                        Or(room_type_hint, <<110, 111, 110, 101>> (* "none" *)) >>] >>
             IN  create_and_strip(got.client, messages, response)

\* Lines 222-318.
build_brief(listing_description, insights, plan, response) ==
    LET highlights == brief_highlights(listing_description, insights, plan)
        risk_flags == brief_risk_flags(listing_description, insights, plan)
        got == _get_openai_client
    IN  IF got.raised
        THEN [raised |-> TRUE, requests |-> <<>>, error |-> got.error]
        ELSE LET user_payload ==
                     [listing_description |-> listing_description,
                      zipcode_insights |-> insights,
                      image_enhance_plan |-> plan,
                      image_plan_lines |-> image_plan_lines(plan),
                      image_markdown_blocks |-> image_markdown_blocks(plan),
                      risk_flags |-> risk_flags]
                 messages ==
                     << [role |-> "system", content |-> <<"senior real estate analyst">>],
                        [role |-> "user", content |-> <<user_payload>>] >>
                 sent == create_and_strip(got.client, messages, response)
             IN  IF sent.raised
                 THEN sent
                 ELSE [raised |-> FALSE, requests |-> sent.requests,
                       value |-> [highlights |-> Take(highlights, 5),
                                  risk_flags |-> risk_flags,
                                  confidence_notes |-> confidence_notes,
                                  narrative_markdown |-> sent.value]]

(***************************************************************************)
(* Actions.                                                                *)
(***************************************************************************)
EnvChoices == {[OPENAI_API_KEY |-> k, OPENAI_MODEL |-> m] : k \in ApiKeys, m \in ModelNames}

\* Before the module is imported; the environment is whatever the process got.
Init ==
    /\ OpenAI = FALSE
    /\ DEFAULT_LLM_MODEL = None
    /\ environ \in EnvChoices
    /\ pc = "unloaded"
    /\ args = <<>>
    /\ room_hint = None
    /\ enhancement_prompt = None
    /\ image_enhance_plan = <<>>
    /\ zipcode_insights = <<>>
    /\ calls = <<>>
    /\ replies = <<>>
    /\ result = <<>>
    /\ error = <<>>

\* Lines 7-13: the module body runs once, at import.
Import(installed) ==
    /\ pc = "unloaded"
    /\ OpenAI' = installed
    /\ DEFAULT_LLM_MODEL' = getenv("OPENAI_MODEL", <<103, 112, 116, 45, 52, 111, 45, 109, 105, 110, 105>> (* "gpt-4o-mini" *))
    /\ pc' = "idle"
    /\ UNCHANGED <<environ, args, room_hint, enhancement_prompt, image_enhance_plan,
                   zipcode_insights, calls, replies, result, error>>

\* The process (the caller, another thread) sets or unsets a variable.
SetEnv(name, value) ==
    /\ environ[name] /= value
    /\ environ' = [environ EXCEPT ![name] = value]
    /\ UNCHANGED <<OpenAI, DEFAULT_LLM_MODEL, pc, args, room_hint, enhancement_prompt,
                   image_enhance_plan, zipcode_insights, calls, replies, result, error>>

\* The call has returned or raised and its caller goes on: the frame is gone.
CallerResumes ==
    /\ pc \in {"returned", "raised"}
    /\ pc' = "idle"
    /\ args' = <<>>
    /\ room_hint' = None
    /\ enhancement_prompt' = None
    /\ image_enhance_plan' = <<>>
    /\ zipcode_insights' = <<>>
    /\ calls' = <<>>
    /\ replies' = <<>>
    /\ result' = <<>>
    /\ error' = <<>>
    /\ UNCHANGED <<OpenAI, DEFAULT_LLM_MODEL, environ>>

Callable == pc = "idle"

\* generate_property_brief is called: lines 321-328.
Invoke(images, style, listing_description, zipcode) ==
    /\ Callable
    /\ args' = << [fn |-> "generate_property_brief", images |-> images, style |-> style,
                   listing_description |-> listing_description, zipcode |-> zipcode] >>
    /\ room_hint' = combined_room_hint(images)
    /\ enhancement_prompt' = None
    /\ image_enhance_plan' = <<>>
    /\ zipcode_insights' = <<>>
    /\ calls' = <<>>
    /\ replies' = <<>>
    /\ result' = <<>>
    /\ error' = <<>>
    /\ pc' = "prompt"
    /\ UNCHANGED <<OpenAI, DEFAULT_LLM_MODEL, environ>>

\* The answer to a request that went out; nothing when none did.
Answered(out, response) == IF Len(out.requests) > 0 THEN <<response>> ELSE <<>>

Raise(e, fn) == <<[type |-> e.type, message |-> e.message, raised_in |-> fn]>>

\* Line 330.
PromptStep ==
    /\ pc = "prompt"
    /\ \E response \in Responses :
        LET out == build_enhancement_prompt(args[1].style, args[1].listing_description,
                                            room_hint, response)
        IN  /\ calls' = calls \o out.requests
            /\ replies' = replies \o Answered(out, response)
            /\ IF out.raised
               THEN /\ error' = Raise(out.error, "build_enhancement_prompt")
                    /\ pc' = "raised"
                    /\ UNCHANGED enhancement_prompt
               ELSE /\ enhancement_prompt' = out.value
                    /\ pc' = "plan"
                    /\ UNCHANGED error
    /\ UNCHANGED <<OpenAI, DEFAULT_LLM_MODEL, environ, args, room_hint, image_enhance_plan,
                   zipcode_insights, result>>

\* Mutant of PlanAppend: the loop may run before the prompt is there.
PlanAppendEarly ==
    /\ pc \in {"prompt", "plan"}
    /\ Len(image_enhance_plan) < Len(args[1].images)
    /\ image_enhance_plan' =
           Append(image_enhance_plan,
                  plan_item(args[1].images[Len(image_enhance_plan) + 1], args[1].style))
    /\ UNCHANGED <<OpenAI, DEFAULT_LLM_MODEL, environ, pc, args, room_hint,
                   enhancement_prompt, zipcode_insights, calls, replies, result, error>>

\* Lines 333-352: one turn of the loop.
PlanAppend ==
    /\ pc = "plan"
    /\ Len(image_enhance_plan) < Len(args[1].images)
    /\ image_enhance_plan' =
           Append(image_enhance_plan,
                  plan_item(args[1].images[Len(image_enhance_plan) + 1], args[1].style))
    /\ UNCHANGED <<OpenAI, DEFAULT_LLM_MODEL, environ, pc, args, room_hint,
                   enhancement_prompt, zipcode_insights, calls, replies, result, error>>

\* Line 354, once the loop is over.
FetchInsights ==
    /\ pc = "plan"
    /\ Len(image_enhance_plan) = Len(args[1].images)
    /\ zipcode_insights' = <<fetch_zipcode_insights(args[1].zipcode)>>
    /\ pc' = "brief"
    /\ UNCHANGED <<OpenAI, DEFAULT_LLM_MODEL, environ, args, room_hint, enhancement_prompt,
                   image_enhance_plan, calls, replies, result, error>>

\* Lines 355-362.
BriefStep ==
    /\ pc = "brief"
    /\ \E response \in Responses :
        LET out == build_brief(args[1].listing_description, zipcode_insights[1],
                               image_enhance_plan, response)
        IN  /\ calls' = calls \o out.requests
            /\ replies' = replies \o Answered(out, response)
            /\ IF out.raised
               THEN /\ error' = Raise(out.error, "build_brief")
                    /\ pc' = "raised"
                    /\ UNCHANGED result
               ELSE /\ result' = << [enhancement_prompt |-> enhancement_prompt,
                                     image_enhance_plan |-> image_enhance_plan,
                                     zipcode_insights |-> zipcode_insights[1],
                                     brief |-> out.value] >>
                    /\ pc' = "returned"
                    /\ UNCHANGED error
    /\ UNCHANGED <<OpenAI, DEFAULT_LLM_MODEL, environ, args, room_hint, enhancement_prompt,
                   image_enhance_plan, zipcode_insights>>

\* build_brief called on its own, lines 222-318.
CallBuildBrief(listing_description, insights, plan) ==
    /\ Callable
    /\ args' = << [fn |-> "build_brief", listing_description |-> listing_description,
                   zipcode_insights |-> insights, image_enhance_plan |-> plan] >>
    /\ \E response \in Responses :
        LET out == build_brief(listing_description, insights, plan, response)
        IN  /\ calls' = out.requests
            /\ replies' = Answered(out, response)
            /\ IF out.raised
               THEN /\ error' = Raise(out.error, "build_brief")
                    /\ result' = <<>>
                    /\ pc' = "raised"
               ELSE /\ result' = <<out.value>>
                    /\ error' = <<>>
                    /\ pc' = "returned"
    /\ room_hint' = None
    /\ enhancement_prompt' = None
    /\ image_enhance_plan' = <<>>
    /\ zipcode_insights' = <<>>
    /\ UNCHANGED <<OpenAI, DEFAULT_LLM_MODEL, environ>>

(***************************************************************************)
(* Specifications.                                                         *)
(***************************************************************************)
\* Spec: the orchestrator under a changing environment, on a few inputs.
FlowImages == SeqsUpTo({Img1, ImgNoHint}, MaxImages)

Next ==
    \/ \E installed \in BOOLEAN : Import(installed)
    \/ \E name \in {"OPENAI_API_KEY"}, value \in ApiKeys : SetEnv(name, value)
    \/ \E name \in {"OPENAI_MODEL"}, value \in ModelNames : SetEnv(name, value)
    \/ \E images \in FlowImages, listing_description \in Descriptions,
          zipcode \in {<<57, 53, 49, 49, 50>> (* "95112" *)} :
            Invoke(images, Luxury, listing_description, zipcode)
    \/ PromptStep
    \/ PlanAppend
    \/ FetchInsights
    \/ BriefStep
    \/ CallerResumes

Spec == Init /\ [][Next]_vars

\* SpecData: the orchestrator on many inputs, the environment left alone.
DataImages == SeqsUpTo({Img1, Img7, ImgNoHint, ImgNoId, ImgBed}, MaxImages)

NextData ==
    \/ \E installed \in BOOLEAN : Import(installed)
    \/ \E images \in DataImages, style \in Styles,
          listing_description \in {<<66, 114, 105, 103, 104, 116, 32, 111, 112, 101, 110, 32, 108, 97, 121, 111, 117, 116, 46>> (* "Bright open layout." *)}, zipcode \in Zipcodes :
            Invoke(images, style, listing_description, zipcode)
    \/ PromptStep
    \/ PlanAppend
    \/ FetchInsights
    \/ BriefStep
    \/ CallerResumes

InitData == Init /\ environ \in {e \in EnvChoices : e.OPENAI_MODEL = None /\ e.OPENAI_API_KEY \in {None, <<115, 107, 45, 97>> (* "sk-a" *)}}

SpecData == InitData /\ [][NextData]_vars

\* SpecBrief: build_brief called directly on arbitrary insights and plans.
RiskLevels == {<<76, 111, 119>> (* "Low" *), <<77, 101, 100, 105, 117, 109>> (* "Medium" *), <<72, 105, 103, 104>> (* "High" *), <<109, 101, 100, 105, 117, 109>> (* "medium" *)}
SchoolHighlights ==
    {mock_fetch_schools(<<57, 53, 49, 49, 50>> (* "95112" *)).highlights, mock_fetch_schools(<<>>).highlights,
     << <<85, 78, 69, 86, 69, 78, 32, 114, 101, 115, 117, 108, 116, 115>> (* "UNEVEN results" *) >>, << <<109, 105, 120>> (* "mix" *), <<101, 100>> (* "ed" *) >>}
ClimateHighlights ==
    {mock_fetch_climate(<<57, 53, 49, 49, 50>> (* "95112" *)).highlights, mock_fetch_climate(<<>>).highlights,
     << <<80, 104, 111, 116, 111, 32, 115, 112, 111, 116, 115>> (* "Photo spots" *) >>, << <<115, 110, 111>> (* "sno" *), <<119>> (* "w" *) >>, <<>>}

BriefInsights ==
    {[fetch_zipcode_insights(<<>>) EXCEPT !.crime.risk_level = r,
                                          !.schools.highlights = s,
                                          !.climate.highlights = c] :
        r \in RiskLevels, s \in SchoolHighlights, c \in ClimateHighlights}
    \cup {fetch_zipcode_insights(z) : z \in Zipcodes}

BriefPlans == SeqsUpTo({plan_item(Img1, Luxury), plan_item(ImgNoId, <<66, 111, 104, 111>> (* "Boho" *))}, MaxImages)

NextBrief ==
    \/ \E installed \in BOOLEAN : Import(installed)
    \/ \E listing_description \in Descriptions, insights \in BriefInsights,
          plan \in BriefPlans :
            CallBuildBrief(listing_description, insights, plan)
    \/ CallerResumes

SpecBrief == InitData /\ [][NextBrief]_vars

(***************************************************************************)
(* Properties of the orchestrator's control flow, checked under Spec.      *)
(***************************************************************************)
Generating == Len(args) = 1 /\ args[1].fn = "generate_property_brief"

Roles(call) == [j \in 1..Len(call.messages) |-> call.messages[j].role]

IsEnhancementCall(call) ==
    /\ call.messages[1].content = <<"enhancement prompt writer">>
    /\ Len(call.messages[2].content) = 3

IsNarrativeCall(call) ==
    /\ call.messages[1].content = <<"senior real estate analyst">>
    /\ Len(call.messages[2].content) = 1

Failed(reply) == reply.raises \/ reply.content = None

ConfigError(e) ==
    /\ e.type = "RuntimeError"
    /\ e.message \in {"openai package is not installed. Run: pip install openai",
                      "OPENAI_API_KEY is not set in the environment."}

\* The requests the running call had sent before it entered the function
\* that raised.
SentBefore(e) == IF Generating /\ e.raised_in = "build_brief" THEN 1 ELSE 0

\* C1: an invocation of generate_property_brief never has more than two
\* completion requests out, the first is the enhancement-prompt request and
\* the second the narrative request, each carries one system message followed
\* by one user message, and an invocation that has returned has sent exactly
\* two.
C1_TwoCallsInOrder ==
    Generating =>
        /\ Len(calls) <= 2
        /\ \A i \in 1..Len(calls) : Roles(calls[i]) = <<"system", "user">>
        /\ (Len(calls) >= 1 => IsEnhancementCall(calls[1]))
        /\ (Len(calls) = 2 => IsNarrativeCall(calls[2]))
        /\ (pc = "returned" => Len(calls) = 2)

C1_Witness ==
    /\ Generating
    /\ pc = "returned"
    /\ Len(calls) = 2
    /\ Len(args[1].images) = 2

\* C2: a result exists exactly when the invocation has returned, and then it
\* has the four fields, both requests were answered with a text and the two
\* texts in the result are those answers, stripped; a request that failed is
\* the last one sent, the invocation has raised that failure and holds no
\* result and no enhancement prompt made up in its place.
C2_AllOrNothing ==
    Generating =>
        /\ (Len(result) = 1) <=> (pc = "returned")
        /\ (Len(error) = 1) <=> (pc = "raised")
        /\ Len(replies) = Len(calls)
        /\ pc = "returned" =>
            /\ DOMAIN result[1] =
                   {"enhancement_prompt", "image_enhance_plan", "zipcode_insights", "brief"}
            /\ DOMAIN result[1].brief =
                   {"highlights", "risk_flags", "confidence_notes", "narrative_markdown"}
            /\ Len(replies) = 2
            /\ ~Failed(replies[1]) /\ ~Failed(replies[2])
            /\ result[1].enhancement_prompt = strip(replies[1].content)
            /\ result[1].brief.narrative_markdown = strip(replies[2].content)
        /\ \A i \in 1..Len(replies) :
            Failed(replies[i]) =>
                /\ i = Len(replies)
                /\ pc = "raised"
                /\ error[1].type =
                       (IF replies[i].raises THEN replies[i].type ELSE "AttributeError")
                /\ error[1].raised_in =
                       (IF i = 1 THEN "build_enhancement_prompt" ELSE "build_brief")
        /\ pc = "raised" =>
            /\ ConfigError(error[1]) \/ Failed(replies[Len(replies)])
            /\ (error[1].raised_in = "build_enhancement_prompt" => enhancement_prompt = None)

C2_Witness ==
    /\ Generating
    /\ pc = "raised"
    /\ Len(replies) = 2
    /\ replies[2].raises
    /\ result = <<>>

\* C3: when the client library is missing or the key is unset or empty,
\* build_enhancement_prompt and build_brief raise the configuration error
\* without sending their request; and a raised error is the configuration
\* error exactly when the function that raised sent nothing, any other error
\* being of another type and the answer to the request that was sent.
C3_RaisedState ==
    pc = "raised" =>
        LET e == error[1]
        IN  /\ ConfigError(e) <=> (Len(calls) = SentBefore(e))
            /\ ~ConfigError(e) =>
                /\ e.type /= "RuntimeError"
                /\ Len(calls) = SentBefore(e) + 1
                /\ Failed(replies[Len(replies)])

C3_CallStep ==
    (/\ pc \in {"prompt", "brief"}
     /\ pc' /= pc
     /\ (~OpenAI \/ ~Truthy(environ["OPENAI_API_KEY"])))
    => (/\ pc' = "raised"
        /\ ConfigError(error'[1])
        /\ calls' = calls)

C3_ConfigErrorBeforeNetwork == [](C3_RaisedState) /\ [][C3_CallStep]_vars

C3_Witness ==
    /\ Generating
    /\ pc = "raised"
    /\ ConfigError(error[1])
    /\ error[1].raised_in = "build_brief"
    /\ Len(calls) = 1

\* C4: while the prompt is being generated, and after its generation has
\* failed, no plan item has been built and no insight looked up; when brief
\* composition has failed, the plan holds an item for every image and the
\* insights are there.
C4_FailFast ==
    Generating =>
        /\ (pc = "prompt" => image_enhance_plan = <<>> /\ zipcode_insights = <<>>)
        /\ (pc = "raised" /\ error[1].raised_in = "build_enhancement_prompt") =>
               (image_enhance_plan = <<>> /\ zipcode_insights = <<>>)
        /\ (pc = "raised" /\ error[1].raised_in = "build_brief") =>
               /\ Len(image_enhance_plan) = Len(args[1].images)
               /\ zipcode_insights = <<fetch_zipcode_insights(args[1].zipcode)>>

C4_Witness ==
    /\ Generating
    /\ pc = "raised"
    /\ error[1].raised_in = "build_brief"
    /\ Len(args[1].images) = 2
    /\ Len(image_enhance_plan) = 2

\* C5 as stated: each request carries the key and the model name that the
\* environment holds when the request is built.
C5_ReadAtCallTime ==
    [][Len(calls') > Len(calls) =>
          LET call == calls'[Len(calls')]
          IN  /\ call.api_key = environ["OPENAI_API_KEY"]
              /\ call.model = getenv("OPENAI_MODEL", <<103, 112, 116, 45, 52, 111, 45, 109, 105, 110, 105>> (* "gpt-4o-mini" *))]_vars

\* C5 amended: each request carries the key the environment holds when the
\* request is built, and the model name the environment held when the module
\* was imported (the default when it held none), which no later step changes.
C5_KeyAtCallModelAtImport ==
    [][/\ Len(calls') > Len(calls) =>
             LET call == calls'[Len(calls')]
             IN  /\ call.api_key = environ["OPENAI_API_KEY"]
                 /\ call.model = DEFAULT_LLM_MODEL
       /\ (pc = "unloaded" /\ pc' /= pc) =>
             DEFAULT_LLM_MODEL' = getenv("OPENAI_MODEL", <<103, 112, 116, 45, 52, 111, 45, 109, 105, 110, 105>> (* "gpt-4o-mini" *))
       /\ pc /= "unloaded" => DEFAULT_LLM_MODEL' = DEFAULT_LLM_MODEL]_vars

C5_Witness ==
    /\ Len(calls) = 2
    /\ calls[1].api_key /= calls[2].api_key
    /\ environ["OPENAI_MODEL"] /= None
    /\ calls[2].model = <<103, 112, 116, 45, 52, 111, 45, 109, 105, 110, 105>> (* "gpt-4o-mini" *)

(***************************************************************************)
(* Properties of the plan, the room hint and the lookups, checked under    *)
(* SpecData.                                                               *)
(***************************************************************************)
KnownStyles == {<<77, 111, 100, 101, 114, 110, 32, 78, 101, 117, 116, 114, 97, 108>> (* "Modern Neutral" *), <<76, 117, 120, 117, 114, 121>> (* "Luxury" *), <<66, 114, 105, 103, 104, 116, 32, 68, 97, 121, 116, 105, 109, 101>> (* "Bright Daytime" *), <<87, 97, 114, 109, 32, 67, 111, 122, 121>> (* "Warm Cozy" *)}

\* The hint of an image as the caller gave it, None when it gave none.
OwnHint(image) == IF "room_type_hint" \in DOMAIN image THEN image.room_type_hint ELSE None

\* C6: the plan is built image by image in input order and is complete once
\* the loop is over; item i carries image i's id, url and own hint, its edits
\* are the four baseline strings, then the style's edits (two for a known
\* style, else the one fallback), then the one room edit of its own hint, and
\* its mock url is the fixed prefix, the id ("" when absent) and ".jpg".
C6_PlanItems ==
    Generating =>
        LET images == args[1].images
            style == args[1].style
            style_edits == _style_suggested_edits(style)
        IN  /\ Len(image_enhance_plan) <= Len(images)
            /\ (pc \in {"brief", "returned"} => Len(image_enhance_plan) = Len(images))
            /\ (pc = "returned" => result[1].image_enhance_plan = image_enhance_plan)
            /\ Len(style_edits) = (IF style \in KnownStyles THEN 2 ELSE 1)
            /\ (style \notin KnownStyles =>
                    style_edits = << <<77, 97, 105, 110, 116, 97, 105, 110, 32, 97, 32, 98, 97, 108, 97, 110, 99, 101, 100, 44, 32, 114, 101, 97, 108, 105, 115, 116, 105, 99, 32, 112, 114, 101, 115, 101, 110, 116, 97, 116, 105, 111, 110>> (* "Maintain a balanced, realistic presentation" *) >>)
            /\ \A i \in 1..Len(image_enhance_plan) :
                LET item == image_enhance_plan[i]
                    image == images[i]
                    id == IF "image_id" \in DOMAIN image THEN image.image_id ELSE <<>>
                    edits == item.suggested_edits
                    room_edits == _room_suggested_edits(OwnHint(image))
                IN  /\ item.image_id = id
                    /\ item.original_url = (IF "url" \in DOMAIN image THEN image.url ELSE <<>>)
                    /\ item.room_type_hint = OwnHint(image)
                    /\ Len(room_edits) = 1
                    /\ Len(edits) = 4 + Len(style_edits) + 1
                    /\ SubSeq(edits, 1, 4) = << <<67, 111, 114, 114, 101, 99, 116, 32, 108, 105, 103, 104, 116, 105, 110, 103, 32, 97, 110, 100, 32, 101, 120, 112, 111, 115, 117, 114, 101>> (* "Correct lighting and exposure" *),
                                                <<79, 112, 116, 105, 109, 105, 122, 101, 32, 99, 111, 108, 111, 114, 32, 98, 97, 108, 97, 110, 99, 101>> (* "Optimize color balance" *),
                                                <<68, 101, 99, 108, 117, 116, 116, 101, 114, 32, 118, 105, 115, 105, 98, 108, 101, 32, 115, 117, 114, 102, 97, 99, 101, 115>> (* "Declutter visible surfaces" *),
                                                <<82, 101, 102, 105, 110, 101, 32, 115, 116, 97, 103, 105, 110, 103, 32, 102, 111, 114, 32, 116, 104, 101, 32, 114, 111, 111, 109>> (* "Refine staging for the room" *) >>
                    /\ SubSeq(edits, 5, 4 + Len(style_edits)) = style_edits
                    /\ edits[Len(edits)] = room_edits[1]
                    /\ item.mock_enhanced_url =
                           (<<104, 116, 116, 112, 115, 58, 47, 47, 101, 120, 97, 109, 112, 108, 101, 46, 99, 111, 109, 47, 101, 110, 104, 97, 110, 99, 101, 100, 47>> (* "https://example.com/enhanced/" *) \o id) \o <<46, 106, 112, 103>> (* ".jpg" *)
                    /\ (id = <<105, 109, 103, 95, 55>> (* "img_7" *) =>
                           item.mock_enhanced_url = <<104, 116, 116, 112, 115, 58, 47, 47, 101, 120, 97, 109, 112, 108, 101, 46, 99, 111, 109, 47, 101, 110, 104, 97, 110, 99, 101, 100, 47, 105, 109, 103, 95, 55, 46, 106, 112, 103>> (* "https://example.com/enhanced/img_7.jpg" *))
                    /\ ("image_id" \notin DOMAIN image =>
                           item.mock_enhanced_url = <<104, 116, 116, 112, 115, 58, 47, 47, 101, 120, 97, 109, 112, 108, 101, 46, 99, 111, 109, 47, 101, 110, 104, 97, 110, 99, 101, 100, 47, 46, 106, 112, 103>> (* "https://example.com/enhanced/.jpg" *))

C6_Witness ==
    /\ Generating
    /\ pc = "returned"
    /\ args[1].images = <<ImgNoId, Img7>>
    /\ args[1].style = <<66, 111, 104, 111>> (* "Boho" *)
    /\ Len(result[1].image_enhance_plan) = 2
    /\ Len(result[1].image_enhance_plan[2].suggested_edits) = 6

\* The non-empty hints among the images.
HintSet(images) == {OwnHint(images[i]) : i \in 1..Len(images)} \ {None, <<>>}

\* The orderings of a finite set of strings.
Orderings(S) == {s \in SeqsUpTo(S, Cardinality(S)) : Len(s) = Cardinality(S) /\ set(s) = S}

Increasing(s) == \A i \in 1..(Len(s) - 1) : StrLess(s[i], s[i + 1])

\* C9: the hint handed to build_enhancement_prompt is None exactly when no
\* image has a non-empty hint, and else the distinct non-empty hints, each
\* once, in increasing order, joined with ", "; with two or more distinct
\* hints it is none of the images' own hints; and it is what the
\* enhancement-prompt request carries ("none" for None).
C9_CombinedRoomHint ==
    Generating =>
        LET images == args[1].images
            H == HintSet(images)
        IN  /\ (room_hint = None) <=> (H = {})
            /\ (H /= {} => \E s \in Orderings(H) :
                               Increasing(s) /\ room_hint = join(<<44, 32>> (* ", " *), s))
            /\ (Cardinality(H) >= 2 => room_hint \notin H)
            /\ (Len(calls) >= 1 =>
                    calls[1].messages[2].content[3] =
                        (IF room_hint = None THEN <<110, 111, 110, 101>> (* "none" *) ELSE room_hint))
            /\ (images \in {<<Img1, Img7>>, <<Img7, Img1>>} =>
                    room_hint = <<98, 101, 100, 114, 111, 111, 109, 44, 32, 107, 105, 116, 99, 104, 101, 110>> (* "bedroom, kitchen" *))
            /\ (images = <<Img1, Img1>> => room_hint = <<107, 105, 116, 99, 104, 101, 110>> (* "kitchen" *))

C9_Witness ==
    /\ Generating
    /\ args[1].images = <<Img1, Img7>>
    /\ room_hint = <<98, 101, 100, 114, 111, 111, 109, 44, 32, 107, 105, 116, 99, 104, 101, 110>> (* "bedroom, kitchen" *)
    /\ Len(calls) >= 1

\* The tables of lines 66-174, written out.
Curated95112 ==
    [community |-> [
        summary |-> <<85, 114, 98, 97, 110, 32, 110, 101, 105, 103, 104, 98, 111, 114, 104, 111, 111, 100, 32, 119, 105, 116, 104, 32, 109, 105, 120, 101, 100, 32, 114, 101, 115, 105, 100, 101, 110, 116, 105, 97, 108, 32, 97, 110, 100, 32, 99, 111, 109, 109, 101, 114, 99, 105, 97, 108, 32, 98, 108, 111, 99, 107, 115, 46>> (* "Urban neighborhood with mixed residential and commercial blocks." *),
        highlights |-> << <<87, 97, 108, 107, 97, 98, 108, 101, 32, 115, 116, 114, 101, 101, 116, 115, 32, 97, 110, 100, 32, 108, 111, 99, 97, 108, 32, 115, 104, 111, 112, 115>> (* "Walkable streets and local shops" *),
                          <<65, 99, 99, 101, 115, 115, 32, 116, 111, 32, 116, 114, 97, 110, 115, 105, 116, 32, 99, 111, 114, 114, 105, 100, 111, 114, 115>> (* "Access to transit corridors" *),
                          <<65, 99, 116, 105, 118, 101, 32, 110, 101, 105, 103, 104, 98, 111, 114, 104, 111, 111, 100, 32, 97, 115, 115, 111, 99, 105, 97, 116, 105, 111, 110, 115>> (* "Active neighborhood associations" *) >>,
        source |-> <<109, 111, 99, 107, 95, 99, 111, 109, 109, 117, 110, 105, 116, 121, 95, 100, 97, 116, 97, 115, 101, 116, 95, 118, 49>> (* "mock_community_dataset_v1" *),
        updated_at |-> <<50, 48, 50, 54, 45, 48, 49, 45, 48, 49>> (* "2026-01-01" *)],
     climate |-> [
        summary |-> <<77, 105, 108, 100, 32, 99, 108, 105, 109, 97, 116, 101, 32, 119, 105, 116, 104, 32, 119, 97, 114, 109, 32, 115, 117, 109, 109, 101, 114, 115, 32, 97, 110, 100, 32, 99, 111, 111, 108, 32, 119, 105, 110, 116, 101, 114, 115, 46>> (* "Mild climate with warm summers and cool winters." *),
        highlights |-> << <<87, 97, 114, 109, 32, 115, 117, 109, 109, 101, 114, 32, 97, 102, 116, 101, 114, 110, 111, 111, 110, 115>> (* "Warm summer afternoons" *),
                          <<67, 111, 111, 108, 32, 101, 118, 101, 110, 105, 110, 103, 115, 32, 105, 110, 32, 119, 105, 110, 116, 101, 114>> (* "Cool evenings in winter" *),
                          <<76, 111, 119, 32, 97, 110, 110, 117, 97, 108, 32, 115, 110, 111, 119, 102, 97, 108, 108>> (* "Low annual snowfall" *) >>,
        source |-> <<109, 111, 99, 107, 95, 99, 108, 105, 109, 97, 116, 101, 95, 100, 97, 116, 97, 115, 101, 116, 95, 118, 49>> (* "mock_climate_dataset_v1" *),
        updated_at |-> <<50, 48, 50, 54, 45, 48, 49, 45, 48, 49>> (* "2026-01-01" *)],
     schools |-> [
        summary |-> <<83, 99, 104, 111, 111, 108, 115, 32, 115, 104, 111, 119, 32, 109, 105, 120, 101, 100, 32, 112, 101, 114, 102, 111, 114, 109, 97, 110, 99, 101, 32, 119, 105, 116, 104, 32, 97, 32, 114, 97, 110, 103, 101, 32, 111, 102, 32, 112, 114, 111, 103, 114, 97, 109, 115, 46>> (* "Schools show mixed performance with a range of programs." *),
        highlights |-> << <<86, 97, 114, 105, 101, 100, 32, 97, 99, 97, 100, 101, 109, 105, 99, 32, 111, 117, 116, 99, 111, 109, 101, 115, 32, 97, 99, 114, 111, 115, 115, 32, 115, 99, 104, 111, 111, 108, 115>> (* "Varied academic outcomes across schools" *),
                          <<83, 84, 69, 77, 32, 97, 110, 100, 32, 97, 114, 116, 115, 32, 112, 114, 111, 103, 114, 97, 109, 115, 32, 97, 118, 97, 105, 108, 97, 98, 108, 101>> (* "STEM and arts programs available" *),
                          <<83, 111, 109, 101, 32, 115, 99, 104, 111, 111, 108, 115, 32, 119, 105, 116, 104, 105, 110, 32, 119, 97, 108, 107, 105, 110, 103, 32, 100, 105, 115, 116, 97, 110, 99, 101>> (* "Some schools within walking distance" *) >>,
        source |-> <<109, 111, 99, 107, 95, 115, 99, 104, 111, 111, 108, 95, 100, 97, 116, 97, 115, 101, 116, 95, 118, 49>> (* "mock_school_dataset_v1" *),
        updated_at |-> <<50, 48, 50, 54, 45, 48, 49, 45, 48, 49>> (* "2026-01-01" *)],
     crime |-> [
        summary |-> <<67, 114, 105, 109, 101, 32, 108, 101, 118, 101, 108, 115, 32, 97, 114, 101, 32, 109, 111, 100, 101, 114, 97, 116, 101, 32, 114, 101, 108, 97, 116, 105, 118, 101, 32, 116, 111, 32, 110, 101, 97, 114, 98, 121, 32, 97, 114, 101, 97, 115, 46>> (* "Crime levels are moderate relative to nearby areas." *),
        risk_level |-> <<77, 101, 100, 105, 117, 109>> (* "Medium" *),
        highlights |-> << <<80, 114, 111, 112, 101, 114, 116, 121, 32, 105, 110, 99, 105, 100, 101, 110, 116, 115, 32, 97, 114, 101, 32, 116, 104, 101, 32, 109, 111, 115, 116, 32, 99, 111, 109, 109, 111, 110>> (* "Property incidents are the most common" *),
                          <<80, 111, 108, 105, 99, 101, 32, 112, 114, 101, 115, 101, 110, 99, 101, 32, 97, 114, 111, 117, 110, 100, 32, 116, 114, 97, 110, 115, 105, 116, 32, 104, 117, 98, 115>> (* "Police presence around transit hubs" *),
                          <<78, 101, 105, 103, 104, 98, 111, 114, 104, 111, 111, 100, 32, 119, 97, 116, 99, 104, 32, 97, 99, 116, 105, 118, 105, 116, 121, 32, 114, 101, 112, 111, 114, 116, 101, 100>> (* "Neighborhood watch activity reported" *) >>,
        source |-> <<109, 111, 99, 107, 95, 99, 114, 105, 109, 101, 95, 100, 97, 116, 97, 115, 101, 116, 95, 118, 49>> (* "mock_crime_dataset_v1" *),
        updated_at |-> <<50, 48, 50, 54, 45, 48, 49, 45, 48, 49>> (* "2026-01-01" *)]]

DefaultInsights ==
    [community |-> [
        summary |-> <<71, 101, 110, 101, 114, 97, 108, 32, 99, 111, 109, 109, 117, 110, 105, 116, 121, 32, 112, 114, 111, 102, 105, 108, 101, 32, 102, 111, 114, 32, 116, 104, 101, 32, 97, 114, 101, 97, 46>> (* "General community profile for the area." *),
        highlights |-> << <<76, 111, 99, 97, 108, 32, 97, 109, 101, 110, 105, 116, 105, 101, 115, 32, 110, 101, 97, 114, 98, 121>> (* "Local amenities nearby" *),
                          <<77, 105, 120, 101, 100, 32, 104, 111, 117, 115, 105, 110, 103, 32, 116, 121, 112, 101, 115>> (* "Mixed housing types" *),
                          <<67, 111, 109, 109, 117, 110, 105, 116, 121, 32, 101, 118, 101, 110, 116, 115>> (* "Community events" *) >>,
        source |-> <<109, 111, 99, 107, 95, 99, 111, 109, 109, 117, 110, 105, 116, 121, 95, 100, 97, 116, 97, 115, 101, 116, 95, 118, 49>> (* "mock_community_dataset_v1" *),
        updated_at |-> <<50, 48, 50, 54, 45, 48, 49, 45, 48, 49>> (* "2026-01-01" *)],
     climate |-> [
        summary |-> <<84, 121, 112, 105, 99, 97, 108, 32, 114, 101, 103, 105, 111, 110, 97, 108, 32, 99, 108, 105, 109, 97, 116, 101, 32, 112, 97, 116, 116, 101, 114, 110, 115, 46>> (* "Typical regional climate patterns." *),
        highlights |-> << <<83, 101, 97, 115, 111, 110, 97, 108, 32, 116, 101, 109, 112, 101, 114, 97, 116, 117, 114, 101, 32, 118, 97, 114, 105, 97, 116, 105, 111, 110>> (* "Seasonal temperature variation" *),
                          <<79, 99, 99, 97, 115, 105, 111, 110, 97, 108, 32, 114, 97, 105, 110>> (* "Occasional rain" *),
                          <<77, 111, 100, 101, 114, 97, 116, 101, 32, 104, 117, 109, 105, 100, 105, 116, 121>> (* "Moderate humidity" *) >>,
        source |-> <<109, 111, 99, 107, 95, 99, 108, 105, 109, 97, 116, 101, 95, 100, 97, 116, 97, 115, 101, 116, 95, 118, 49>> (* "mock_climate_dataset_v1" *),
        updated_at |-> <<50, 48, 50, 54, 45, 48, 49, 45, 48, 49>> (* "2026-01-01" *)],
     schools |-> [
        summary |-> <<83, 99, 104, 111, 111, 108, 32, 111, 112, 116, 105, 111, 110, 115, 32, 118, 97, 114, 121, 32, 98, 121, 32, 122, 111, 110, 101, 46>> (* "School options vary by zone." *),
        highlights |-> << <<80, 117, 98, 108, 105, 99, 32, 97, 110, 100, 32, 112, 114, 105, 118, 97, 116, 101, 32, 111, 112, 116, 105, 111, 110, 115>> (* "Public and private options" *),
                          <<69, 110, 114, 111, 108, 108, 109, 101, 110, 116, 32, 118, 97, 114, 105, 101, 115>> (* "Enrollment varies" *),
                          <<80, 114, 111, 103, 114, 97, 109, 32, 97, 118, 97, 105, 108, 97, 98, 105, 108, 105, 116, 121, 32, 100, 105, 102, 102, 101, 114, 115>> (* "Program availability differs" *) >>,
        source |-> <<109, 111, 99, 107, 95, 115, 99, 104, 111, 111, 108, 95, 100, 97, 116, 97, 115, 101, 116, 95, 118, 49>> (* "mock_school_dataset_v1" *),
        updated_at |-> <<50, 48, 50, 54, 45, 48, 49, 45, 48, 49>> (* "2026-01-01" *)],
     crime |-> [
        summary |-> <<67, 114, 105, 109, 101, 32, 112, 114, 111, 102, 105, 108, 101, 32, 118, 97, 114, 105, 101, 115, 32, 119, 105, 116, 104, 105, 110, 32, 116, 104, 101, 32, 97, 114, 101, 97, 46>> (* "Crime profile varies within the area." *),
        risk_level |-> <<77, 101, 100, 105, 117, 109>> (* "Medium" *),
        highlights |-> << <<77, 105, 120, 101, 100, 32, 105, 110, 99, 105, 100, 101, 110, 116, 32, 116, 121, 112, 101, 115, 32, 114, 101, 112, 111, 114, 116, 101, 100>> (* "Mixed incident types reported" *),
                          <<83, 111, 109, 101, 32, 115, 116, 114, 101, 101, 116, 115, 32, 97, 114, 101, 32, 113, 117, 105, 101, 116, 101, 114, 32, 116, 104, 97, 110, 32, 111, 116, 104, 101, 114, 115>> (* "Some streets are quieter than others" *),
                          <<76, 111, 99, 97, 108, 32, 115, 97, 102, 101, 116, 121, 32, 105, 110, 105, 116, 105, 97, 116, 105, 118, 101, 115, 32, 101, 120, 105, 115, 116>> (* "Local safety initiatives exist" *) >>,
        source |-> <<109, 111, 99, 107, 95, 99, 114, 105, 109, 101, 95, 100, 97, 116, 97, 115, 101, 116, 95, 118, 49>> (* "mock_crime_dataset_v1" *),
        updated_at |-> <<50, 48, 50, 54, 45, 48, 49, 45, 48, 49>> (* "2026-01-01" *)]]

\* C10: the lookup never fails (the insights are there as soon as the plan
\* loop is over), the mapping has exactly the four keys, it is the curated
\* record for "95112" and the default record for every other string, and
\* every record carries its source and the update date.
C10_ZipcodeInsights ==
    Generating =>
        /\ (pc \in {"brief", "returned"} => Len(zipcode_insights) = 1)
        /\ Len(zipcode_insights) = 1 =>
            LET insights == zipcode_insights[1]
            IN  /\ DOMAIN insights = {"community", "climate", "schools", "crime"}
                /\ insights = (IF args[1].zipcode = <<57, 53, 49, 49, 50>> (* "95112" *)
                                 THEN Curated95112 ELSE DefaultInsights)
                /\ \A k \in DOMAIN insights :
                    /\ {"summary", "highlights", "source", "updated_at"}
                           \subseteq DOMAIN insights[k]
                    /\ insights[k].updated_at = <<50, 48, 50, 54, 45, 48, 49, 45, 48, 49>> (* "2026-01-01" *)
                /\ (pc = "returned" => result[1].zipcode_insights = insights)

C10_Witness ==
    /\ Generating
    /\ pc = "returned"
    /\ args[1].zipcode = <<57, 53, 49, 49, 120>> (* "9511x" *)
    /\ result[1].zipcode_insights = DefaultInsights

(***************************************************************************)
(* Properties of build_brief on arbitrary arguments, checked under         *)
(* SpecBrief.                                                              *)
(***************************************************************************)
BriefReturned == Len(args) = 1 /\ args[1].fn = "build_brief" /\ pc = "returned"

Keep(on, flag) == IF on THEN <<flag>> ELSE <<>>

HasAny(text, keywords) == \E kw \in keywords : contains(text, kw)

\* C7: risk_flags is the five candidate flags, in their order, less those
\* whose condition fails; it is empty for a Low level with no other
\* condition met, and for the insights of an unknown zipcode, an empty
\* description and one image it is the Medium flag then the missing
\* description flag.
C7_RiskFlags ==
    BriefReturned =>
        LET a == args[1]
            flags == result[1].risk_flags
            level == a.zipcode_insights.crime.risk_level
            school == lower(join(<<32>> (* " " *), a.zipcode_insights.schools.highlights))
            climate == lower(join(<<32>> (* " " *), a.zipcode_insights.climate.highlights))
            crime_on == level \in {<<77, 101, 100, 105, 117, 109>> (* "Medium" *), <<72, 105, 103, 104>> (* "High" *)}
            school_on == HasAny(school, {<<118, 97, 114, 105, 101, 100>> (* "varied" *), <<109, 105, 120, 101, 100>> (* "mixed" *), <<117, 110, 101, 118, 101, 110>> (* "uneven" *)})
            climate_on == HasAny(climate, {<<104, 101, 97, 116>> (* "heat" *), <<104, 111, 116>> (* "hot" *), <<115, 116, 111, 114, 109>> (* "storm" *), <<102, 108, 111, 111, 100>> (* "flood" *), <<115, 110, 111, 119>> (* "snow" *)})
            no_text == a.listing_description = <<>>
            no_plan == a.image_enhance_plan = <<>>
        IN  /\ flags =
                   Keep(crime_on, <<67, 114, 105, 109, 101, 32, 114, 105, 115, 107, 32, 108, 101, 118, 101, 108, 32, 114, 101, 112, 111, 114, 116, 101, 100, 32, 97, 115, 32>> (* "Crime risk level reported as " *) \o level)
                   \o Keep(school_on, <<83, 99, 104, 111, 111, 108, 32, 112, 101, 114, 102, 111, 114, 109, 97, 110, 99, 101, 32, 97, 112, 112, 101, 97, 114, 115, 32, 118, 97, 114, 105, 97, 98, 108, 101, 32, 97, 99, 114, 111, 115, 115, 32, 122, 111, 110, 101, 115>> (* "School performance appears variable across zones" *))
                   \o Keep(climate_on, <<67, 108, 105, 109, 97, 116, 101, 32, 110, 111, 116, 101, 115, 32, 105, 110, 99, 108, 117, 100, 101, 32, 115, 101, 97, 115, 111, 110, 97, 108, 32, 101, 120, 116, 114, 101, 109, 101, 115, 32, 111, 114, 32, 101, 118, 101, 110, 116, 115>> (* "Climate notes include seasonal extremes or events" *))
                   \o Keep(no_text, <<76, 105, 115, 116, 105, 110, 103, 32, 100, 101, 115, 99, 114, 105, 112, 116, 105, 111, 110, 32, 105, 115, 32, 109, 105, 115, 115, 105, 110, 103, 32, 111, 114, 32, 109, 105, 110, 105, 109, 97, 108>> (* "Listing description is missing or minimal" *))
                   \o Keep(no_plan, <<78, 111, 32, 105, 109, 97, 103, 101, 32, 101, 110, 104, 97, 110, 99, 101, 109, 101, 110, 116, 32, 112, 108, 97, 110, 32, 103, 101, 110, 101, 114, 97, 116, 101, 100>> (* "No image enhancement plan generated" *))
            /\ (a.zipcode_insights.schools.highlights = << <<85, 78, 69, 86, 69, 78, 32, 114, 101, 115, 117, 108, 116, 115>> (* "UNEVEN results" *) >> => school_on)
            /\ (a.zipcode_insights.schools.highlights = << <<109, 105, 120>> (* "mix" *), <<101, 100>> (* "ed" *) >> => ~school_on)
            /\ (a.zipcode_insights.climate.highlights = << <<80, 104, 111, 116, 111, 32, 115, 112, 111, 116, 115>> (* "Photo spots" *) >> => climate_on)
            /\ (a.zipcode_insights.climate.highlights = << <<115, 110, 111>> (* "sno" *), <<119>> (* "w" *) >> => ~climate_on)
            /\ ((level = <<76, 111, 119>> (* "Low" *) /\ ~school_on /\ ~climate_on /\ ~no_text /\ ~no_plan) =>
                    flags = <<>>)
            /\ ((/\ a.zipcode_insights = DefaultInsights
                 /\ no_text
                 /\ Len(a.image_enhance_plan) = 1) =>
                    flags = << <<67, 114, 105, 109, 101, 32, 114, 105, 115, 107, 32, 108, 101, 118, 101, 108, 32, 114, 101, 112, 111, 114, 116, 101, 100, 32, 97, 115, 32, 77, 101, 100, 105, 117, 109>> (* "Crime risk level reported as Medium" *),
                               <<76, 105, 115, 116, 105, 110, 103, 32, 100, 101, 115, 99, 114, 105, 112, 116, 105, 111, 110, 32, 105, 115, 32, 109, 105, 115, 115, 105, 110, 103, 32, 111, 114, 32, 109, 105, 110, 105, 109, 97, 108>> (* "Listing description is missing or minimal" *) >>)

C7_Witness ==
    /\ BriefReturned
    /\ args[1].zipcode_insights.schools.highlights = << <<85, 78, 69, 86, 69, 78, 32, 114, 101, 115, 117, 108, 116, 115>> (* "UNEVEN results" *) >>
    /\ Len(result[1].risk_flags) = 5

\* C8: highlights has at most five entries and is the first five of: the
\* description line (when the description is not empty), the count line for
\* the length of the plan, the community, climate and schools lines; the count
\* line is always in it and no line carries the crime summary.
C8_Highlights ==
    BriefReturned =>
        LET a == args[1]
            highlights == result[1].highlights
            count_line == (<<80, 108, 97, 110, 110, 101, 100, 32, 105, 109, 97, 103, 101, 32, 101, 110, 104, 97, 110, 99, 101, 109, 101, 110, 116, 115, 32, 102, 111, 114, 32>> (* "Planned image enhancements for " *)
                               \o <<48 + Len(a.image_enhance_plan)>>) \o <<32, 112, 104, 111, 116, 111, 115>> (* " photos" *)
            lines == Keep(a.listing_description /= <<>>,
                          <<76, 105, 115, 116, 105, 110, 103, 32, 100, 101, 115, 99, 114, 105, 112, 116, 105, 111, 110, 58, 32>> (* "Listing description: " *) \o a.listing_description)
                     \o << count_line,
                           <<67, 111, 109, 109, 117, 110, 105, 116, 121, 58, 32>> (* "Community: " *) \o a.zipcode_insights.community.summary,
                           <<67, 108, 105, 109, 97, 116, 101, 58, 32>> (* "Climate: " *) \o a.zipcode_insights.climate.summary,
                           <<83, 99, 104, 111, 111, 108, 115, 58, 32>> (* "Schools: " *) \o a.zipcode_insights.schools.summary >>
        IN  /\ Len(highlights) <= 5
            /\ highlights = SubSeq(lines, 1, IF Len(lines) < 5 THEN Len(lines) ELSE 5)
            /\ \E i \in 1..Len(highlights) : highlights[i] = count_line
            /\ \A i \in 1..Len(highlights) :
                   ~contains(highlights[i], a.zipcode_insights.crime.summary)

C8_Witness ==
    /\ BriefReturned
    /\ args[1].listing_description /= <<>>
    /\ Len(args[1].image_enhance_plan) = 2
    /\ Len(result[1].highlights) = 5

====
